---- MODULE Spec2Model ----
(***************************************************************************)
(* A model of the shallot interpreter: Expression values, the Environment, *)
(* the evaluator with its calling protocols (atoms.rs), the standard       *)
(* builtins (builtins.rs), the tokenizer (token.rs), the parser            *)
(* (expression.rs) and the top-level evaluate (lib.rs).                    *)
(*                                                                         *)
(* Characters are one-character strings.  The three non-ASCII builtin      *)
(* names are written with ASCII stand-ins, each one character long as in   *)
(* the source: "L" for U+03BB (lambda), "M" for U+03BC (mu), "<" for       *)
(* U+2264 (less-or-equal).  Numbers are integers: f64 arithmetic on the    *)
(* small integers used here is exact.                                      *)
(***************************************************************************)
EXTENDS Integers, Sequences, FiniteSets, TLC

(***************************************************************************)
(* Bounds of the model.                                                    *)
(***************************************************************************)
\* native stack depth available to the recursive eval
MaxDepth == 12
\* number of evaluate calls in one session
MaxSession == 3
\* number of evaluate calls in a session that defines one callable and calls it
MaxCalls == 2
\* the longest token stream handed to the parser
MaxTokens == 5
\* the longest list among the expressions that are rendered
MaxElems == 2

(***************************************************************************)
(* Expression values (expression.rs:84-93).                                *)
(***************************************************************************)
Sym(s) == [k |-> "symbol", s |-> s]
Num(n) == [k |-> "number", n |-> n]
Lst(l) == [k |-> "list", l |-> l]
BuiltinFunction(name) == [k |-> "builtin function", name |-> name]
BuiltinMacro(name) == [k |-> "builtin macro", name |-> name]
Lambda(parameters, value, env) ==
    [k |-> "lambda", parameters |-> parameters, value |-> value, env |-> env]
Macro(parameters, value, env) ==
    [k |-> "macro", parameters |-> parameters, value |-> value, env |-> env]

\* E::null(), the empty list
null == Lst(<<>>)

(***************************************************************************)
(* Environment (environment.rs): a map from symbol names to values.        *)
(***************************************************************************)
Environment_default == <<>>
\* mutant: no name is ever found
Environment_has_never(env, s) == FALSE

Environment_has(env, s) == s \in DOMAIN env
Environment_get(env, s) == env[s]
\* mutant: a name already bound keeps its value
Environment_set_keep(env, s, v) ==
    [x \in (DOMAIN env) \cup {s} |-> IF x \in DOMAIN env THEN env[x] ELSE v]

Environment_set(env, s, v) ==
    [x \in (DOMAIN env) \cup {s} |-> IF x = s THEN v ELSE env[x]]
\* #[derive(Clone)]: an independent copy of the map
Environment_clone(env) == env

(***************************************************************************)
(* Environment values in memory.  Each Environment value owns the HashMap  *)
(* in its field inner: mem is the maps allocated so far, and ref[h] is the *)
(* map the h-th Environment value of the program holds.                    *)
(***************************************************************************)
\* Environment::get on the h-th value: Some(value) or None
Environment_get_at(m, h, s) ==
    IF Environment_has(m.mem[m.ref[h]], s)
    THEN [some |-> TRUE, v |-> Environment_get(m.mem[m.ref[h]], s)]
    ELSE [some |-> FALSE, v |-> null]

\* Environment::set on the h-th value, in place
Environment_set_at(m, h, s, v) ==
    [m EXCEPT !.mem[m.ref[h]] = Environment_set(@, s, v)]

\* mutant: the copy holds the map of the original
Environment_clone_shared(m, h) ==
    [mem |-> m.mem, ref |-> Append(m.ref, m.ref[h])]

\* #[derive(Clone)] on the h-th value: a new value that owns a new map with
\* the entries of the original
Environment_clone_at(m, h) ==
    [mem |-> Append(m.mem, Environment_clone(m.mem[m.ref[h]])),
     ref |-> Append(m.ref, Len(m.mem) + 1)]

(***************************************************************************)
(* Results.  eval takes env by &mut, so every outcome carries the          *)
(* environment as the call left it.  t is "ok", "err" (an anyhow error     *)
(* value), "panic" (the process aborts) or "overflow" (the native stack    *)
(* is exhausted).  tr is the log of the expressions eval was entered       *)
(* with, each with the nesting depth d of private environments.            *)
(***************************************************************************)
NoErr == [c |-> "", a |-> "", ctx |-> <<>>]
Ok(v, env, tr) == [t |-> "ok", v |-> v, err |-> NoErr, env |-> env, tr |-> tr]
Err(c, a, env, tr) ==
    [t |-> "err", v |-> null, err |-> [c |-> c, a |-> a, ctx |-> <<>>],
     env |-> env, tr |-> tr]
Panic(c, env, tr) ==
    [t |-> "panic", v |-> null, err |-> [c |-> c, a |-> "", ctx |-> <<>>],
     env |-> env, tr |-> tr]
Overflow(env, tr) ==
    [t |-> "overflow", v |-> null, err |-> [c |-> "stack overflow", a |-> "", ctx |-> <<>>],
     env |-> env, tr |-> tr]
\* anyhow's with_context / context: adds a frame to an Err, passes the rest
with_context(r, f, n) ==
    IF r.t = "err"
    THEN [r EXCEPT !.err.ctx = Append(@, [f |-> f, n |-> n])]
    ELSE r
\* the same result, seen from a caller whose environment is env
InEnv(r, env) == [r EXCEPT !.env = env]

(***************************************************************************)
(* Truthiness.                                                             *)
(***************************************************************************)
\* LispExpression::is_truthy, the trait method the generic builtins call
is_truthy(e) == IF e.k = "list" THEN e.l = <<>> ELSE FALSE
\* Expression::is_truthy of lib.rs
Expression_is_truthy(e) == ~(e.k = "list" /\ e.l = <<>>)

(***************************************************************************)
(* Native builtins on evaluated arguments (builtins.rs).                   *)
(***************************************************************************)
RECURSIVE FirstNot(_, _, _)
\* index of the first element of kind other than k at or after i, 0 if none
FirstNot(xs, k, i) ==
    IF i > Len(xs) THEN 0
    ELSE IF xs[i].k # k THEN i ELSE FirstNot(xs, k, i + 1)

\* expressions_to_homogeneous: 0 when all are of kind k, else the 1-based
\* index of the first that is not
expressions_to_homogeneous(xs, k) == FirstNot(xs, k, 1)

RECURSIVE Sum(_, _)
Sum(xs, i) == IF i > Len(xs) THEN 0 ELSE xs[i].n + Sum(xs, i + 1)
RECURSIVE Product(_, _)
Product(xs, i) == IF i > Len(xs) THEN 1 ELSE xs[i].n * Product(xs, i + 1)

TypeErr(arguments, k, what, env, tr) ==
    with_context(
        with_context(Err("type error", k, env, tr), "Argument number",
                     expressions_to_homogeneous(arguments, k)),
        what, 0)

RECURSIVE le_loop(_, _)
\* the for loop of le: TRUE iff no adjacent pair decreases
le_loop(xs, i) ==
    IF i > Len(xs) - 1 THEN TRUE
    ELSE IF xs[i].n > xs[i + 1].n THEN FALSE ELSE le_loop(xs, i + 1)

le(arguments, env, tr) ==
    IF expressions_to_homogeneous(arguments, "number") # 0
    THEN TypeErr(arguments, "number", "Arguments to add are not all numbers", env, tr)
    ELSE IF Len(arguments) = 0
    \* 0..arguments.len() - 1 on usize: the subtraction overflows (debug
    \* build), or wraps and arguments[0] is out of range (release build)
    THEN Panic("le: arguments.len() - 1", env, tr)
    ELSE IF le_loop(arguments, 1) THEN Ok(Num(1), env, tr) ELSE Ok(null, env, tr)

add(arguments, env, tr) ==
    IF expressions_to_homogeneous(arguments, "number") # 0
    THEN TypeErr(arguments, "number", "Arguments to add are not all numbers", env, tr)
    ELSE Ok(Num(Sum(arguments, 1)), env, tr)

sub(arguments, env, tr) ==
    IF expressions_to_homogeneous(arguments, "number") # 0
    THEN TypeErr(arguments, "number", "Arguments to add are not all numbers", env, tr)
    ELSE IF Len(arguments) > 0
    THEN Ok(Num(arguments[1].n - Sum(arguments, 2)), env, tr)
    ELSE Err("Insufficient arguments to sub", "", env, tr)

mul(arguments, env, tr) ==
    IF expressions_to_homogeneous(arguments, "number") # 0
    THEN TypeErr(arguments, "number", "Arguments to mul are not all numbers", env, tr)
    ELSE Ok(Num(Product(arguments, 1)), env, tr)

\* f64 division; exact on the operands used here (divisor a non-zero
\* divisor of the dividend), rounded toward minus infinity otherwise
Quot(a, b) == IF b = 0 THEN 0 ELSE a \div b

div(arguments, env, tr) ==
    IF expressions_to_homogeneous(arguments, "number") # 0
    THEN TypeErr(arguments, "number", "Arguments to add are not all numbers", env, tr)
    ELSE IF Len(arguments) > 0
    THEN Ok(Num(Quot(arguments[1].n, Product(arguments, 2))), env, tr)
    ELSE Err("Insufficient arguments to div", "", env, tr)

RECURSIVE eq_loop(_, _)
\* TRUE iff every element from i on equals its predecessor
eq_loop(xs, i) ==
    IF i > Len(xs) THEN TRUE
    ELSE IF xs[i] # xs[i - 1] THEN FALSE ELSE eq_loop(xs, i + 1)

eq(arguments, env, tr) ==
    IF Len(arguments) > 0
    THEN IF eq_loop(arguments, 2) THEN Ok(Num(1), env, tr) ELSE Ok(Lst(<<>>), env, tr)
    ELSE Ok(Num(1), env, tr)

list(arguments, env, tr) == Ok(Lst(arguments), env, tr)

\* mutant: the binding is made before the argument count is checked
define_eager(arguments, env, tr) ==
    IF Len(arguments) >= 2 /\ arguments[1].k = "symbol"
    THEN LET env2 == Environment_set(env, arguments[1].s, arguments[2])
         IN  IF Len(arguments) # 2
             THEN Err("Define requires two arguments", "", env2, tr)
             ELSE Ok(Environment_get(env2, arguments[1].s), env2, tr)
    ELSE IF Len(arguments) # 2
    THEN Err("Define requires two arguments", "", env, tr)
    ELSE with_context(Err("type error", "symbol", env, tr),
                      "First argument to define should be a symbol", 0)

define(arguments, env, tr) ==
    IF Len(arguments) # 2
    THEN Err("Define requires two arguments", "", env, tr)
    ELSE IF arguments[1].k # "symbol"
    THEN with_context(Err("type error", "symbol", env, tr),
                      "First argument to define should be a symbol", 0)
    ELSE LET env2 == Environment_set(env, arguments[1].s, arguments[2])
         IN  Ok(Environment_get(env2, arguments[1].s), env2, tr)

(***************************************************************************)
(* Native builtin macros that do not evaluate (builtins.rs).               *)
(***************************************************************************)
\* mutant: quote returns the list of its arguments
quote_all(arguments, env, tr) == Ok(Lst(arguments), env, tr)

quote(arguments, env, tr) ==
    IF Len(arguments) # 1
    THEN Err("Quote must be called on exactly one argument", "", env, tr)
    ELSE Ok(arguments[1], env, tr)

SymbolNames(xs) == [i \in 1..Len(xs) |-> xs[i].s]

lambda(arguments, env, tr) ==
    IF Len(arguments) # 2
    THEN Err("Lambdas must be constructed with exactly two arguments", "", env, tr)
    ELSE IF arguments[1].k # "list"
    THEN with_context(Err("type error", "list", env, tr),
                      "First argument to lambda construction must be a list", 0)
    ELSE IF expressions_to_homogeneous(arguments[1].l, "symbol") # 0
    THEN TypeErr(arguments[1].l, "symbol", "Parameter names need to all be symbols", env, tr)
    ELSE Ok(Lambda(SymbolNames(arguments[1].l), arguments[2], Environment_clone(env)),
            env, tr)

macr(arguments, env, tr) ==
    IF Len(arguments) # 2
    THEN Err("Macros must be constructed with exactly two arguments", "", env, tr)
    ELSE IF arguments[1].k # "list"
    THEN with_context(Err("type error", "list", env, tr),
                      "First argument to macros construction must be a list", 0)
    ELSE IF expressions_to_homogeneous(arguments[1].l, "symbol") # 0
    THEN TypeErr(arguments[1].l, "symbol", "Parameter names need to all be symbols", env, tr)
    ELSE Ok(Macro(SymbolNames(arguments[1].l), arguments[2], Environment_clone(env)),
            env, tr)

(***************************************************************************)
(* The evaluator and the calling protocols.  cx is the context of one eval *)
(* call: d, the nesting depth of private environments (0 is the caller of  *)
(* evaluate), fuel, the native stack still available, and lib, TRUE when   *)
(* the list case dispatches as Expression::eval of lib.rs does and FALSE   *)
(* when it dispatches through the Atom trait as LispExpression::eval does. *)
(***************************************************************************)
Down(cx) == [cx EXCEPT !.fuel = @ - 1]
Inner(cx) == [cx EXCEPT !.d = @ + 1]

RECURSIVE bind(_, _, _, _)
\* for (parameter, argument) in parameters.iter().zip(arguments): env.set
bind(env, parameters, arguments, i) ==
    IF i > Len(parameters) \/ i > Len(arguments) THEN env
    ELSE bind(Environment_set(env, parameters[i], arguments[i]),
              parameters, arguments, i + 1)

\* Atom::call, the default of the trait (atoms.rs:17-19)
Atom_call(self, arguments, env, tr) ==
    Err("Cannot call as if it were a function", self.k, env, tr)

List_call(self, arguments, env, tr) ==
    IF Len(arguments) > 1
    THEN Err("Cannot index array using more than one index", "", env, tr)
    ELSE IF Len(arguments) = 0
    \* arguments[0] on an empty slice
    THEN Panic("List::call: arguments[0]", env, tr)
    ELSE IF arguments[1].k = "number"
    THEN IF arguments[1].n < 0 \/ arguments[1].n > Len(self.l) - 1
         THEN Err("Cannot index array of length", "", env, tr)
         ELSE Ok(self.l[arguments[1].n + 1], env, tr)
    ELSE Err("Can only index into list using numbers", "", env, tr)

\* mutant: the suffix starts one parameter early
Lambda_partial_early(self, arguments, env2) ==
    Lambda(SubSeq(self.parameters, Len(arguments), Len(self.parameters)),
           self.value, env2)

\* the curried value Lambda::call returns when arguments are missing
Lambda_partial(self, arguments, env2) ==
    Lambda(SubSeq(self.parameters, Len(arguments) + 1, Len(self.parameters)),
           self.value, env2)

\* the curried value Macro::call returns when arguments are missing
Macro_partial(self, arguments, macro_env) ==
    Macro(SubSeq(self.parameters, Len(arguments) + 1, Len(self.parameters)),
          self.value, macro_env)

\* mutant: the body runs in the caller's environment (dynamic scope)
Lambda_env_dynamic(self, arguments, env) ==
    bind(Environment_clone(env), self.parameters, arguments, 1)

\* the environment Lambda::call evaluates the body in: a copy of the
\* captured one with the parameters bound
Lambda_env(self, arguments, env) ==
    bind(Environment_clone(self.env), self.parameters, arguments, 1)

\* the environment Macro::call evaluates the body in
Macro_env(self, arguments, env) ==
    bind(Environment_clone(self.env), self.parameters, arguments, 1)

\* mutant: the expansion is evaluated where the body was
Macro_expansion_env_body(env, macro_env) == macro_env

\* the environment Macro::call evaluates the expansion in: the caller's
Macro_expansion_env(env, macro_env) == env

\* mutant: the body's environment is handed back to the caller
Lambda_return_leak(r, env) == r

\* what Lambda::call hands back: the body's result, the caller's environment
\* as the arguments left it (the body worked on the local copy)
Lambda_return(r, env) == InEnv(r, env)

\* mutant: the arity check is missing
too_many_never(self, arguments) == FALSE

\* Lambda::call and Macro::call: arguments.len() > self.parameters.len()
too_many(self, arguments) == Len(arguments) > Len(self.parameters)

\* mutant: the whole list, head included, is handed to call
list_rest_all(l) == l

\* &list.0[1..], the elements after the head
list_rest(l) == Tail(l)

RECURSIVE eval(_, _, _, _)
RECURSIVE eval_args(_, _, _, _, _, _)
RECURSIVE call(_, _, _, _, _)
RECURSIVE cond_loop(_, _, _, _, _)

\* arguments.iter().enumerate().map(|(n, e)| e.eval(env)).collect(): left to
\* right in env, stopping at the first that does not return a value
eval_args(arguments, i, acc, env, tr, cx) ==
    IF i > Len(arguments) THEN Ok(Lst(acc), env, tr)
    ELSE LET r == eval(arguments[i], env, tr, cx)
         IN  IF r.t # "ok" THEN with_context(r, "Argument number", i)
             ELSE eval_args(arguments, i + 1, Append(acc, r.v), r.env, r.tr, cx)

\* (self.function)(&arguments, env) of a BuiltinFunction, by name as bound
\* in set_environment
native_function(name, arguments, env, tr) ==
    CASE name = "<" -> le(arguments, env, tr)
      [] name = "+" -> add(arguments, env, tr)
      [] name = "*" -> mul(arguments, env, tr)
      [] name = "-" -> sub(arguments, env, tr)
      [] name = "/" -> div(arguments, env, tr)
      [] name = "list" -> list(arguments, env, tr)
      [] name = "=" -> eq(arguments, env, tr)
      [] name = "define" -> define(arguments, env, tr)

RECURSIVE eval_args_frozen(_, _, _, _, _, _)
\* every argument evaluated in the environment as it was when the call began
eval_args_frozen(arguments, i, acc, env, tr, cx) ==
    IF i > Len(arguments) THEN Ok(Lst(acc), env, tr)
    ELSE LET r == eval(arguments[i], env, tr, cx)
         IN  IF r.t # "ok" THEN with_context(InEnv(r, env), "Argument number", i)
             ELSE eval_args_frozen(arguments, i + 1, Append(acc, r.v), env, r.tr, cx)

\* mutant: what one argument binds is lost to the next
BuiltinFunction_call_frozen(self, arguments, env, tr, cx) ==
    LET a == eval_args_frozen(arguments, 1, <<>>, env, tr, cx)
    IN  IF a.t # "ok" THEN with_context(a, "Could not evaluate arguments to", 0)
        ELSE native_function(self.name, a.v.l, a.env, a.tr)

BuiltinFunction_call(self, arguments, env, tr, cx) ==
    LET a == eval_args(arguments, 1, <<>>, env, tr, cx)
    IN  IF a.t # "ok" THEN with_context(a, "Could not evaluate arguments to", 0)
        ELSE native_function(self.name, a.v.l, a.env, a.tr)

\* whether cond takes the consequence of a condition that evaluated to v
cond_takes(v) == is_truthy(v)

cond_loop(arguments, i, env, tr, cx) ==
    IF i >= Len(arguments) \div 2
    THEN IF Len(arguments) % 2 = 0 THEN Ok(Lst(<<>>), env, tr)
         ELSE with_context(eval(arguments[Len(arguments)], env, tr, cx),
                           "Could not evaluate default", 0)
    ELSE LET c == eval(arguments[2 * i + 1], env, tr, cx)
         IN  IF c.t # "ok"
             THEN with_context(c, "Could not evalutate condition number", i + 1)
             ELSE IF cond_takes(c.v)
             THEN with_context(eval(arguments[2 * i + 2], c.env, c.tr, cx),
                               "Could not evaluate consequence number", i + 1)
             ELSE cond_loop(arguments, i + 1, c.env, c.tr, cx)

cond(arguments, env, tr, cx) == cond_loop(arguments, 0, env, tr, cx)

\* mutant: the arguments are evaluated before the native callable sees them
BuiltinMacro_call_eager(self, arguments, env, tr, cx) ==
    LET a == eval_args(arguments, 1, <<>>, env, tr, cx)
    IN  IF a.t # "ok" THEN a
        ELSE CASE self.name = "cond" -> cond(a.v.l, a.env, a.tr, cx)
               [] self.name = "'" -> quote(a.v.l, a.env, a.tr)
               [] self.name = "L" -> lambda(a.v.l, a.env, a.tr)
               [] self.name = "M" -> macr(a.v.l, a.env, a.tr)

\* BuiltinMacro::call: (self.function)(arguments, env), arguments unevaluated
BuiltinMacro_call(self, arguments, env, tr, cx) ==
    CASE self.name = "cond" -> cond(arguments, env, tr, cx)
      [] self.name = "'" -> quote(arguments, env, tr)
      [] self.name = "L" -> lambda(arguments, env, tr)
      [] self.name = "M" -> macr(arguments, env, tr)

\* mutant: the counts are compared before any argument is evaluated
Lambda_call_checked_first(self, arguments, env, tr, cx) ==
    IF too_many(self, arguments)
    THEN Err("Too many arguments to lambda", "", env, tr)
    ELSE LET a == eval_args(arguments, 1, <<>>, env, tr, cx)
         IN  IF a.t # "ok" THEN with_context(a, "Could not evaluate arguments to", 0)
             ELSE LET env2 == Lambda_env(self, a.v.l, a.env)
                  IN  IF Len(a.v.l) < Len(self.parameters)
                      THEN Ok(Lambda_partial(self, a.v.l, env2), a.env, a.tr)
                      ELSE Lambda_return(eval(self.value, env2, a.tr, Inner(cx)), a.env)

Lambda_call(self, arguments, env, tr, cx) ==
    LET a == eval_args(arguments, 1, <<>>, env, tr, cx)
    IN  IF a.t # "ok" THEN with_context(a, "Could not evaluate arguments to", 0)
        ELSE IF too_many(self, a.v.l)
        THEN Err("Too many arguments to lambda", "", a.env, a.tr)
        ELSE LET env2 == Lambda_env(self, a.v.l, a.env)
             IN  IF Len(a.v.l) < Len(self.parameters)
                 THEN Ok(Lambda_partial(self, a.v.l, env2), a.env, a.tr)
                 ELSE Lambda_return(eval(self.value, env2, a.tr, Inner(cx)), a.env)

Macro_call(self, arguments, env, tr, cx) ==
    IF too_many(self, arguments)
    THEN Err("Too many arguments to lambda", "", env, tr)
    ELSE LET macro_env == Macro_env(self, arguments, env)
         IN  IF Len(arguments) < Len(self.parameters)
             THEN Ok(Macro_partial(self, arguments, macro_env), env, tr)
             ELSE LET x == with_context(eval(self.value, macro_env, tr, Inner(cx)),
                                        "Could not expand macro", 0)
                  IN  IF x.t # "ok" THEN InEnv(x, env)
                      ELSE eval(x.v, Macro_expansion_env(env, x.env), x.tr, cx)

\* function.as_atom().call(arguments, env): dispatch through the Atom trait
call(function, arguments, env, tr, cx) ==
    CASE function.k = "builtin function" ->
             BuiltinFunction_call(function, arguments, env, tr, cx)
      [] function.k = "builtin macro" ->
             BuiltinMacro_call(function, arguments, env, tr, cx)
      [] function.k = "lambda" -> Lambda_call(function, arguments, env, tr, cx)
      [] function.k = "macro" -> Macro_call(function, arguments, env, tr, cx)
      [] function.k = "list" -> List_call(function, arguments, env, tr)
      [] OTHER -> Atom_call(function, arguments, env, tr)

\* the match on the head's value in Expression::eval of lib.rs
Expression_call(function, arguments, env, tr, cx) ==
    IF function.k \in {"builtin function", "lambda", "builtin macro", "macro"}
    THEN call(function, arguments, env, tr, cx)
    ELSE Err("Cannot call as a function", function.k, env, tr)

eval(e, env, tr, cx) ==
    LET tr1 == Append(tr, [e |-> e, d |-> cx.d])
        cx1 == Down(cx)
    IN  IF cx.fuel = 0 THEN Overflow(env, tr1)
        ELSE IF e.k = "list"
        THEN IF Len(e.l) = 0
             THEN with_context(Err("Attempt to evaluate empty list", "", env, tr1),
                               "Could not evaluate head of list", 0)
             ELSE LET h == eval(e.l[1], env, tr1, cx1)
                  IN  IF h.t # "ok"
                      THEN with_context(h, "Could not evaluate head of list", 0)
                      ELSE IF cx.lib
                      THEN Expression_call(h.v, list_rest(e.l), h.env, h.tr, cx1)
                      ELSE call(h.v, list_rest(e.l), h.env, h.tr, cx1)
        ELSE IF e.k = "symbol"
        THEN IF Environment_has(env, e.s)
             THEN Ok(Environment_get(env, e.s), env, tr1)
             ELSE Err("Variable unbound", e.s, env, tr1)
        ELSE Ok(e, env, tr1)

(***************************************************************************)
(* set_environment (builtins.rs:203-217): the standard bindings.           *)
(***************************************************************************)
BuiltinFunctionNames == {"<", "+", "*", "-", "/", "list", "=", "define"}
BuiltinMacroNames == {"cond", "'", "L", "M"}
set_environment(env) ==
    [x \in (DOMAIN env) \cup BuiltinFunctionNames \cup BuiltinMacroNames |->
        IF x \in BuiltinFunctionNames THEN BuiltinFunction(x)
        ELSE IF x \in BuiltinMacroNames THEN BuiltinMacro(x)
        ELSE env[x]]

(***************************************************************************)
(* The tokenizer (token.rs).  The input is a sequence of characters; a     *)
(* token keeps its text both as a string (value) and as the characters it  *)
(* was built from (chars), and its 0-based offset (position).              *)
(***************************************************************************)
\* char::is_whitespace on the characters of the model's alphabet
is_whitespace(c) == c \in {" ", "\n", "\t"}

RECURSIVE skip_whitespace(_, _)
\* while self.input.next_if(|c| c.1.is_whitespace()).is_some() {}
skip_whitespace(input, i) ==
    IF i <= Len(input) /\ is_whitespace(input[i])
    THEN skip_whitespace(input, i + 1)
    ELSE i

RECURSIVE comment_end(_, _)
\* one past the last character of the comment that starts at i
comment_end(input, i) ==
    IF i <= Len(input) /\ input[i] # "\n" THEN comment_end(input, i + 1) ELSE i

RECURSIVE word_end(_, _)
\* one past the last character of the run that starts at i
word_end(input, i) ==
    IF i <= Len(input) /\ ~(is_whitespace(input[i]) \/ input[i] \in {"(", ")"})
    THEN word_end(input, i + 1)
    ELSE i

RECURSIVE string_scan(_, _, _)
\* the loop of the double-quoted token: acc is multi_word_token, i the next
\* character; returns the token's characters and the index after it
string_scan(input, i, acc) ==
    IF i > Len(input) THEN [chars |-> acc, next |-> i]
    ELSE IF input[i] = "\\"
    THEN IF i + 1 > Len(input) THEN [chars |-> Append(acc, "\\"), next |-> i + 1]
         ELSE IF input[i + 1] = "\"" THEN string_scan(input, i + 2, Append(acc, "\""))
         ELSE IF input[i + 1] = "\\" THEN string_scan(input, i + 2, Append(acc, "\\"))
         ELSE string_scan(input, i + 2, Append(Append(acc, "\\"), input[i + 1]))
    ELSE IF input[i] = "\"" THEN [chars |-> Append(acc, "\""), next |-> i + 1]
    ELSE string_scan(input, i + 1, Append(acc, input[i]))

RECURSIVE concat(_, _)
\* the String made of the characters cs, from index i on
concat(cs, i) == IF i > Len(cs) THEN "" ELSE cs[i] \o concat(cs, i + 1)

Token(chars, position) ==
    [value |-> concat(chars, 1), chars |-> chars, position |-> position]

\* TokenIterator::next from index i: the token (or none) and the index after
TokenIterator_next(input, i) ==
    LET j == skip_whitespace(input, i)
    IN  IF j > Len(input) THEN [some |-> FALSE, token |-> Token(<<>>, 0), next |-> j]
        ELSE IF input[j] \in {"(", ")"}
        THEN [some |-> TRUE, token |-> Token(<<input[j]>>, j - 1), next |-> j + 1]
        ELSE IF input[j] = ";"
        THEN [some |-> TRUE,
              token |-> Token(SubSeq(input, j, comment_end(input, j) - 1), j - 1),
              next |-> comment_end(input, j)]
        ELSE IF input[j] = "\""
        THEN LET q == string_scan(input, j + 1, <<"\"">>)
             IN  [some |-> TRUE, token |-> Token(q.chars, j - 1), next |-> q.next]
        ELSE [some |-> TRUE,
              token |-> Token(SubSeq(input, j, word_end(input, j) - 1), j - 1),
              next |-> word_end(input, j)]

RECURSIVE tokens_from(_, _, _)
tokens_from(input, i, acc) ==
    LET n == TokenIterator_next(input, i)
    IN  IF n.some THEN tokens_from(input, n.next, Append(acc, n.token)) ELSE acc

\* tokenize(input), the whole stream the iterator yields
tokenize(input) == tokens_from(input, 1, <<>>)

(***************************************************************************)
(* The parser (expression.rs:28-63, 115-120).                              *)
(***************************************************************************)
Digits == {"0", "1", "2", "3", "4", "5", "6", "7", "8", "9"}
DigitValue(c) ==
    CASE c = "0" -> 0 [] c = "1" -> 1 [] c = "2" -> 2 [] c = "3" -> 3 [] c = "4" -> 4
      [] c = "5" -> 5 [] c = "6" -> 6 [] c = "7" -> 7 [] c = "8" -> 8 [] c = "9" -> 9

RECURSIVE digits_value(_, _, _)
digits_value(cs, i, acc) ==
    IF i > Len(cs) THEN acc ELSE digits_value(cs, i + 1, 10 * acc + DigitValue(cs[i]))

\* the unsigned part of a literal f64::from_str accepts: digits only
is_digits(cs) == Len(cs) > 0 /\ \A i \in 1..Len(cs) : cs[i] \in Digits

\* token.value.parse::<f64>().ok(), on the literals of the model: an
\* optional sign and decimal digits
parse_f64(cs) ==
    IF is_digits(cs) THEN [ok |-> TRUE, n |-> digits_value(cs, 1, 0)]
    ELSE IF Len(cs) > 1 /\ cs[1] \in {"+", "-"} /\ is_digits(Tail(cs))
    THEN [ok |-> TRUE,
          n |-> IF cs[1] = "-" THEN 0 - digits_value(cs, 2, 0) ELSE digits_value(cs, 2, 0)]
    ELSE [ok |-> FALSE, n |-> 0]

\* Expression::parse_from_token: a Number if the text parses, else a Symbol
parse_from_token(token) ==
    IF parse_f64(token.chars).ok THEN Num(parse_f64(token.chars).n) ELSE Sym(token.value)

PErr(c, i) == [t |-> "err", v |-> null, err |-> [c |-> c, a |-> "", ctx |-> <<>>], next |-> i]
POk(v, i) == [t |-> "ok", v |-> v, err |-> NoErr, next |-> i]

RECURSIVE quote_rewrite_rescan(_, _, _)
\* mutant: the quoted element is scanned again after its pair
quote_rewrite_rescan(expressions, i, acc) ==
    IF i > Len(expressions) THEN [ok |-> TRUE, l |-> acc]
    ELSE IF expressions[i] = Sym("'")
    THEN IF i + 1 <= Len(expressions)
         THEN quote_rewrite_rescan(expressions, i + 1,
                                   Append(acc, Lst(<<expressions[i], expressions[i + 1]>>)))
         ELSE [ok |-> FALSE, l |-> acc]
    ELSE quote_rewrite_rescan(expressions, i + 1, Append(acc, expressions[i]))

RECURSIVE quote_rewrite(_, _, _)
\* the rewrite loop of parse: a quote symbol takes the element after it
quote_rewrite(expressions, i, acc) ==
    IF i > Len(expressions) THEN [ok |-> TRUE, l |-> acc]
    ELSE IF expressions[i] = Sym("'")
    THEN IF i + 1 <= Len(expressions)
         THEN quote_rewrite(expressions, i + 2,
                            Append(acc, Lst(<<expressions[i], expressions[i + 1]>>)))
         ELSE [ok |-> FALSE, l |-> acc]
    ELSE quote_rewrite(expressions, i + 1, Append(acc, expressions[i]))

RECURSIVE parse(_, _)
RECURSIVE parse_elements(_, _, _, _)

\* the while loop of parse collecting a list's elements; i is the next token
parse_elements(tokens, i, acc, began) ==
    IF i <= Len(tokens) /\ tokens[i].value = ")"
    THEN LET q == quote_rewrite(acc, 1, <<>>)
         IN  IF q.ok THEN POk(Lst(q.l), i + 1)
             ELSE PErr("Trailing quote in input", i + 1)
    ELSE LET r == parse(tokens, i)
         IN  IF r.t # "ok"
             THEN [r EXCEPT !.err.ctx =
                       Append(@, [f |-> "While parsing list that began at", n |-> began])]
             ELSE parse_elements(tokens, r.next, Append(acc, r.v), began)

\* LispExpression::parse from token index i: the expression and the index of
\* the first token not consumed
parse(tokens, i) ==
    IF i > Len(tokens) THEN PErr("Ran out of tokens", i)
    ELSE IF tokens[i].value = "(" THEN parse_elements(tokens, i + 1, <<>>, tokens[i].position)
    ELSE IF tokens[i].value = ")" THEN PErr("Unexpected close bracket", i + 1)
    ELSE POk(parse_from_token(tokens[i]), i + 1)

(***************************************************************************)
(* evaluate (lib.rs:207-217).                                              *)
(***************************************************************************)
evaluate(input, env, lib) ==
    LET tokens == tokenize(input)
        expression == parse(tokens, 1)
    IN  IF expression.t # "ok"
        THEN with_context([t |-> "err", v |-> null, err |-> expression.err,
                           env |-> env, tr |-> <<>>],
                          "Could not parse input", 0)
        ELSE IF expression.next <= Len(tokens)
        THEN Err("Extra tokens in line", "", env, <<>>)
        ELSE with_context(eval(expression.v, env, <<>>,
                               [d |-> 0, fuel |-> MaxDepth, lib |-> lib]),
                          "Could not evaluate input", 0)

(***************************************************************************)
(* Source texts.  Text(ws) is the words ws separated by single spaces,     *)
(* each word spelled out in characters.                                    *)
(***************************************************************************)
Chars(w) ==
    CASE w = "define" -> <<"d", "e", "f", "i", "n", "e">>
      [] w = "list" -> <<"l", "i", "s", "t">>
      [] w = "cond" -> <<"c", "o", "n", "d">>
      [] w = "99" -> <<"9", "9">>
      [] w = "zzz" -> <<"z", "z", "z">>
      [] w = "'x" -> <<"'", "x">>
      [] OTHER -> <<w>>

RECURSIVE TextFrom(_, _)
TextFrom(ws, i) ==
    IF i > Len(ws) THEN <<>>
    ELSE IF i = Len(ws) THEN Chars(ws[i])
    ELSE Chars(ws[i]) \o <<" ">> \o TextFrom(ws, i + 1)

Text(ws) == TextFrom(ws, 1)

(***************************************************************************)
(* Rendering (the Display implementations of atoms.rs).  The text is a     *)
(* sequence of characters, "ESC" standing for the character U+001B.        *)
(***************************************************************************)
Esc == "ESC"

RECURSIVE digits_of(_)
\* the decimal digits of a natural number
digits_of(n) ==
    IF n < 10 THEN <<CHOOSE c \in Digits : DigitValue(c) = n>>
    ELSE Append(digits_of(n \div 10), CHOOSE c \in Digits : DigitValue(c) = n % 10)

\* Display of the f64 of a Number, on the integers of the model
f64_fmt(n) == IF n < 0 THEN <<"-">> \o digits_of(0 - n) ELSE digits_of(n)

\* Display for Symbol: write!(f, "\x1b[0;32m{}\x1b[0m", self.0)
Symbol_fmt(s) ==
    <<Esc, "[", "0", ";", "3", "2", "m">> \o Chars(s) \o <<Esc, "[", "0", "m">>

\* Display for Number: write!(f, "\x1b[0;36m{}\x1b[0m", self.0)
Number_fmt(n) ==
    <<Esc, "[", "0", ";", "3", "6", "m">> \o f64_fmt(n) \o <<Esc, "[", "0", "m">>

RECURSIVE join(_, _)
\* elements.join(" ") from the i-th text on
join(elements, i) ==
    IF i > Len(elements) THEN <<>>
    ELSE IF i = Len(elements) THEN elements[i]
    ELSE elements[i] \o <<" ">> \o join(elements, i + 1)

RECURSIVE to_string(_)
\* e.to_string(): Display for Expression dispatches on the atom; Display
\* for List writes "({})" around the elements' texts joined by spaces
to_string(e) ==
    IF e.k = "symbol" THEN Symbol_fmt(e.s)
    ELSE IF e.k = "number" THEN Number_fmt(e.n)
    ELSE <<"(">> \o join([i \in 1..Len(e.l) |-> to_string(e.l[i])], 1) \o <<")">>

(***************************************************************************)
(* The state machine: a session of evaluate calls on one root environment, *)
(* as the REPL makes them.                                                 *)
(*   env    the root Environment                                           *)
(*   hist   one record per evaluate call made: its input text, the         *)
(*          environment it started from (pre) and its outcome (r)          *)
(*   alive  FALSE once a call has aborted the process                      *)
(*   lib    which list dispatch the evaluator uses (see cx)                *)
(*   heap   the Environment values an embedding program holds besides, and *)
(*          the maps they own                                              *)
(***************************************************************************)
VARIABLES env, hist, alive, lib, heap
vars == <<env, hist, alive, lib, heap>>

\* one Environment value with the standard bindings
heap_default == [mem |-> <<set_environment(Environment_default)>>, ref |-> <<1>>]

\* main: a default Environment with the standard bindings
Init ==
    /\ env = set_environment(Environment_default)
    /\ hist = <<>>
    /\ alive = TRUE
    /\ lib = FALSE
    /\ heap = heap_default

\* one evaluate(input, &mut env) call of the REPL loop
Evaluate(input, bound) ==
    /\ alive
    /\ Len(hist) < bound
    /\ LET r == evaluate(input, env, lib)
       IN  /\ env' = r.env
           /\ hist' = Append(hist, [op |-> "evaluate", input |-> input, pre |-> env, r |-> r])
           /\ alive' = (r.t \in {"ok", "err"})
    /\ UNCHANGED <<lib, heap>>

\* Environment::set called by the embedding program, as main does for its
\* default bindings
Set(symbol, value, bound) ==
    /\ alive
    /\ Len(hist) < bound
    /\ env' = Environment_set(env, symbol, value)
    /\ hist' = Append(hist, [op |-> "set", input |-> <<>>, pre |-> env,
                             r |-> Ok(value, env', <<>>)])
    /\ UNCHANGED <<alive, lib, heap>>

\* Expression::parse(&mut tokenize(input).peekable()) on the text the run
\* was started with: the outcome, and next, the first token not consumed
Parse ==
    /\ Len(hist) = 1
    /\ hist[1].op = "input"
    /\ LET tokens == tokenize(hist[1].input)
           r == parse(tokens, 1)
       IN  hist' = Append(hist, [op |-> "parse", input |-> hist[1].input, pre |-> env,
                                 r |-> [t |-> r.t, v |-> r.v, err |-> r.err,
                                        next |-> r.next, env |-> env, tr |-> <<>>]])
    /\ UNCHANGED <<env, alive, lib, heap>>

\* parse(&mut tokenize(&e.to_string()).peekable()) on the expression the run
\* was started with; rest tells whether tokens were left unconsumed
RoundTrip ==
    /\ Len(hist) = 1
    /\ hist[1].op = "expression"
    /\ LET text == to_string(hist[1].r.v)
           tokens == tokenize(text)
           r == parse(tokens, 1)
       IN  hist' = Append(hist, [op |-> "roundtrip", input |-> text, pre |-> env,
                                 r |-> [t |-> r.t, v |-> r.v, err |-> r.err,
                                        next |-> r.next, rest |-> r.next <= Len(tokens),
                                        env |-> env, tr |-> <<>>]])
    /\ UNCHANGED <<env, alive, lib, heap>>

\* let env2 = env1.clone(), made once, of the first value
CloneEnv(bound) ==
    /\ Len(heap.ref) = 1
    /\ Len(hist) < bound
    /\ heap' = Environment_clone_at(heap, 1)
    /\ hist' = Append(hist, [op |-> "clone", input |-> <<>>, pre |-> env,
                             r |-> Ok(null, env, <<>>), h |-> 1, before |-> heap])
    /\ UNCHANGED <<env, alive, lib>>

\* Environment::set on the h-th value the program holds
SetAt(h, symbol, value, bound) ==
    /\ h \in 1..Len(heap.ref)
    /\ Len(hist) < bound
    /\ heap' = Environment_set_at(heap, h, symbol, value)
    /\ hist' = Append(hist, [op |-> "set_at", input |-> <<>>, pre |-> env,
                             r |-> Ok(value, env, <<>>), h |-> h, before |-> heap])
    /\ UNCHANGED <<env, alive, lib>>

(***************************************************************************)
(* Inputs of the sessions.                                                 *)
(***************************************************************************)
\* closures and per-call scopes
DefF == Text(<<"(", "define", "'", "f", "(", "L", "(", ")", "n", ")", ")">>)
DefN == Text(<<"(", "define", "'", "n", "5", ")">>)
CallF == Text(<<"(", "f", ")">>)
DefG == Text(<<"(", "define", "'", "g", "(", "L", "(", "a", ")",
                "(", "+", "a", "n", ")", ")", ")">>)
CallG == Text(<<"(", "g", "1", ")">>)
DefH == Text(<<"(", "define", "'", "h", "(", "L", "(", "a", ")",
                "(", "define", "'", "z", "a", ")", ")", ")">>)
CallH == Text(<<"(", "h", "7", ")">>)
LookZ == Text(<<"z">>)

SessionInputs == {DefF, DefN, CallF, DefG, CallG, DefH, CallH, LookZ}

Next == \E input \in SessionInputs : Evaluate(input, MaxSession)

Spec == Init /\ [][Next]_vars

(***************************************************************************)
(* A session that defines one callable and calls it, or makes one call of  *)
(* the builtins.                                                           *)
(***************************************************************************)
\* f = L (a b) (+ a b)
DefAdd == Text(<<"(", "define", "'", "f", "(", "L", "(", "a", "b", ")",
                  "(", "+", "a", "b", ")", ")", ")">>)
\* u = M (x) x: the expansion is the argument expression
DefU == Text(<<"(", "define", "'", "u", "(", "M", "(", "x", ")", "x", ")", ")">>)
\* q = M (x) ' x: the expansion is the symbol x
DefQ == Text(<<"(", "define", "'", "q", "(", "M", "(", "x", ")", "'", "x", ")", ")">>)
\* b = M () (define ' w 7): the body defines w
DefB == Text(<<"(", "define", "'", "b", "(", "M", "(", ")",
                "(", "define", "'", "w", "7", ")", ")", ")">>)
\* t = M (x y) y
DefT == Text(<<"(", "define", "'", "t", "(", "M", "(", "x", "y", ")", "y", ")", ")">>)
CallF1 == Text(<<"(", "f", "1", ")">>)
CallF1then2 == Text(<<"(", "(", "f", "1", ")", "2", ")">>)
CallF123 == Text(<<"(", "f", "1", "2", "3", ")">>)
CallUDefine == Text(<<"(", "u", "(", "define", "'", "w", "7", ")", ")">>)
CallFDefineExtra == Text(<<"(", "f", "1", "2", "(", "define", "'", "x", "1", ")", ")">>)
CallFUnboundExtra == Text(<<"(", "f", "1", "2", "y", ")">>)
CallTDefineExtra == Text(<<"(", "t", "1", "y", "(", "define", "'", "w", "7", ")", ")">>)

CallInputs ==
    { DefAdd, DefU, DefQ, DefB, DefT,
      \* Lambda calls: partial, saturated through a partial, too many
      CallF1, CallF1then2, CallF123,
      Text(<<"(", "f", "1", "2", ")">>),
      CallFUnboundExtra, CallFDefineExtra,
      Text(<<"(", "(", "f", "1", ")", "2", "3", ")">>),
      Text(<<"(", "f", "(", "define", "'", "x", "1", ")", "y", ")">>),
      \* Macro calls
      CallUDefine,
      Text(<<"(", "u", "(", "+", "1", "2", ")", ")">>),
      Text(<<"(", "u", "y", ")">>),
      Text(<<"(", "q", "5", ")">>),
      Text(<<"(", "b", ")">>),
      Text(<<"(", "t", "1", ")">>),
      Text(<<"(", "(", "t", "1", ")", "2", ")">>),
      Text(<<"(", "t", "1", "2", "3", ")">>),
      CallTDefineExtra,
      \* builtin functions and cond
      Text(<<"(", "+", "(", "define", "'", "x", "1", ")", "y", ")">>),
      Text(<<"(", "cond", "(", "define", "'", "x", "1", ")", "y", ")">>),
      Text(<<"(", "cond", "(", "list", ")", "1", "(", "list", ")", "2", "99", ")">>),
      Text(<<"(", "cond", "(", "list", ")", "1", "(", "list", ")", "2", ")">>),
      Text(<<"(", "cond", "1", "2", "(", "define", "'", "x", "1", ")", "3", "99", ")">>),
      Text(<<"(", "<", ")">>),
      Text(<<"(", "<", "1", "2", "2", "3", ")">>),
      Text(<<"(", "(", "list", "1", "2", ")", ")">>),
      Text(<<"(", "(", "list", "1", "2", ")", "1", ")">>) }

NextCalls == \E input \in CallInputs : Evaluate(input, MaxCalls)

SpecCalls == Init /\ [][NextCalls]_vars

(***************************************************************************)
(* A session of an embedding program: it evaluates texts and also binds    *)
(* values it built itself with Environment::set.                           *)
(***************************************************************************)
\* the tree (list ' x) as written, three elements, no quote-prefix rewrite
RawBody == Lst(<<Sym("list"), Sym("'"), Sym("x")>>)
\* what parse makes of the text (list ' x)
ParsedBody == Lst(<<Sym("list"), Lst(<<Sym("'"), Sym("x")>>)>>)

DefGMacro == Text(<<"(", "define", "'", "g", "(", "M", "(", "x", ")",
                     "(", "list", "'", "x", ")", ")", ")">>)
DefGLambda == Text(<<"(", "define", "'", "g", "(", "L", "(", "x", ")",
                      "(", "list", "'", "x", ")", ")", ")">>)
DefX == Text(<<"(", "define", "'", "x", "9", ")">>)
CallG12 == Text(<<"(", "g", "(", "+", "1", "2", ")", ")">>)

EmbedInputs == {DefGMacro, DefGLambda, DefX, CallG12}

NextEmbed ==
    \/ \E input \in EmbedInputs : Evaluate(input, MaxSession)
    \/ Set("g", Macro(<<"x">>, RawBody, Environment_clone(env)), MaxSession)
    \/ Set("g", Lambda(<<"x">>, RawBody, Environment_clone(env)), MaxSession)

SpecEmbed == Init /\ [][NextEmbed]_vars

(***************************************************************************)
(* Reading the history.  hist only grows, so every prefix of it is the     *)
(* history of a reachable state: a property of the last step that holds    *)
(* in every reachable state holds of every step.                           *)
(***************************************************************************)
Steps == 1..Len(hist)
\* the context the head and the arguments of a step's list are evaluated in
CallCx == [d |-> 0, fuel |-> MaxDepth - 1, lib |-> lib]

\* step j as a call: its record, whether its text parsed to one expression,
\* whether that is a non-empty list, the parsed expression, the argument expressions, and the evaluation of the
\* head in the environment the step started from, with the log eval keeps
\* from the start of the step
View(j) ==
    LET tokens == IF hist[j].op = "evaluate" THEN tokenize(hist[j].input) ELSE <<>>
        p == parse(tokens, 1)
        parsed == p.t = "ok" /\ p.next > Len(tokens)
        isCall == parsed /\ p.v.k = "list" /\ Len(p.v.l) >= 1
    IN  [step |-> hist[j],
         parsed |-> parsed,
         isCall |-> isCall,
         expr |-> p.v,
         args |-> IF isCall THEN Tail(p.v.l) ELSE <<>>,
         head |-> IF isCall
                  THEN eval(p.v.l[1], hist[j].pre, <<[e |-> p.v, d |-> 0]>>, CallCx)
                  ELSE Err("", "", hist[j].pre, <<>>)]

\* the arguments' evaluation, left to right, after the head's
ArgsRun(c) == eval_args(c.args, 1, <<>>, c.head.env, c.head.tr, CallCx)
CallsKind(c, kinds) == c.isCall /\ c.head.t = "ok" /\ c.head.v.k \in kinds
CallsUser(c) == CallsKind(c, {"lambda", "macro"})
IsMacroCall(c) == CallsKind(c, {"macro"})
IsLambdaCall(c) == CallsKind(c, {"lambda"})
\* the step entered eval inside a private environment
BodyEvaluated(h) == \E t \in 1..Len(h.r.tr) : h.r.tr[t].d >= 1
\* the step looked the symbol n up directly in a callee's private environment
LooksUp(h, n) == \E t \in 1..Len(h.r.tr) : h.r.tr[t] = [e |-> Sym(n), d |-> 1]

RECURSIVE Symbols(_)
\* the symbol names that occur in e
Symbols(e) ==
    IF e.k = "symbol" THEN {e.s}
    ELSE IF e.k = "list" THEN UNION {Symbols(e.l[i]) : i \in 1..Len(e.l)}
    ELSE {}

\* base with the first k of params bound to vals, later ones winning
BoundEnv(base, params, vals, k) ==
    [x \in (DOMAIN base) \cup {params[i] : i \in 1..k} |->
        IF \E i \in 1..k : params[i] = x
        THEN vals[CHOOSE i \in 1..k :
                     params[i] = x /\ \A m \in 1..k : params[m] = x => m <= i]
        ELSE base[x]]

\* c is (define ' f (L (p...) body)) evaluated with the standard define, '
\* and L, and it returned a Lambda
IsLambdaDef(c) ==
    /\ c.isCall
    /\ Len(c.expr.l) = 3
    /\ c.expr.l[1] = Sym("define")
    /\ c.expr.l[2].k = "list"
    /\ Len(c.expr.l[2].l) = 2
    /\ c.expr.l[2].l[1] = Sym("'")
    /\ c.expr.l[3].k = "list"
    /\ Len(c.expr.l[3].l) = 3
    /\ c.expr.l[3].l[1] = Sym("L")
    /\ c.step.pre["define"] = BuiltinFunction("define")
    /\ c.step.pre["'"] = BuiltinMacro("'")
    /\ c.step.pre["L"] = BuiltinMacro("L")
    /\ c.step.r.t = "ok"
    /\ c.step.r.v.k = "lambda"

\* c is a saturated call, through a symbol, of the Lambda step i made with L
CallsLambdaOf(i, c) ==
    /\ IsLambdaCall(c)
    /\ c.expr.l[1].k = "symbol"
    /\ hist[i].r.t = "ok"
    /\ c.head.v = hist[i].r.v
    /\ Len(c.args) = Len(c.head.v.parameters)
    /\ IsLambdaDef(View(i))

\* the names bound after the capture of step i that the body of a call at
\* step j may not see
BoundAfterCapture(i, j) ==
    (DOMAIN hist[j].pre) \ ((DOMAIN hist[i].pre) \cup
        {hist[i].r.v.parameters[p] : p \in 1..Len(hist[i].r.v.parameters)})

(***************************************************************************)
(* C1: closure snapshot.  When a Lambda was made by the L builtin in an    *)
(* environment E, and a name n not bound in E (and not a parameter) was    *)
(* defined afterwards, every later saturated call of that Lambda whose     *)
(* body looks n up returns the unbound-variable error naming n.  (Bodies   *)
(* that themselves define are left out: they bind n privately.)            *)
(***************************************************************************)
C1_ClosureSnapshot ==
    Len(hist) >= 2 =>
        LET j == Len(hist)
            c == View(j)
        IN  \A i \in 1..(j - 1) :
                CallsLambdaOf(i, c) /\ "define" \notin Symbols(c.head.v.value) =>
                    \A n \in BoundAfterCapture(i, j) :
                        LooksUp(hist[j], n) =>
                            /\ hist[j].r.t = "err"
                            /\ hist[j].r.err.c = "Variable unbound"
                            /\ hist[j].r.err.a = n

\* n was defined after f captured its environment, and the call of f failed
C1_Witness ==
    /\ Len(hist) = 3
    /\ hist[1].input = DefF
    /\ hist[2].input = DefN
    /\ hist[3].input = CallF
    /\ CallsLambdaOf(1, View(3))
    /\ "n" \in BoundAfterCapture(1, 3)
    /\ hist[3].pre["n"] = Num(5)
    /\ LooksUp(hist[3], "n")
    /\ hist[3].r.err.a = "n"

(***************************************************************************)
(* C2: per-call private scope.  A saturated Lambda call whose arguments    *)
(* are literals leaves the caller's environment exactly as it was, with    *)
(* the Lambda and its captured environment in it, whatever the body bound; *)
(* and a later call of the same Lambda with the same arguments gives the   *)
(* same outcome.                                                           *)
(***************************************************************************)
SaturatedLambdaCall(c) ==
    /\ IsLambdaCall(c)
    /\ Len(c.args) = Len(c.head.v.parameters)
    /\ \A a \in 1..Len(c.args) : c.args[a].k = "number"

C2_PrivateScope ==
    Len(hist) >= 1 =>
        LET j == Len(hist)
            c == View(j)
        IN  SaturatedLambdaCall(c) =>
                /\ hist[j].r.t \in {"ok", "err"} => hist[j].r.env = hist[j].pre
                /\ \A i \in 1..(j - 1) :
                      /\ hist[i].input = hist[j].input
                      /\ hist[i].op = "evaluate"
                      /\ SaturatedLambdaCall(View(i))
                      /\ View(i).head.v = c.head.v
                      => /\ hist[i].r.t = hist[j].r.t
                         /\ hist[i].r.v = hist[j].r.v

\* h, whose body defines z, was called twice: both calls returned 7 and z
\* is bound nowhere outside
C2_Witness ==
    /\ Len(hist) = 3
    /\ hist[1].input = DefH
    /\ hist[2].input = CallH
    /\ hist[3].input = CallH
    /\ hist[2].r.t = "ok"
    /\ hist[3].r.v = Num(7)
    /\ \E t \in 1..Len(hist[3].r.tr) : hist[3].r.tr[t] = [e |-> Sym("define"), d |-> 1]
    /\ "z" \notin DOMAIN env
    /\ "z" \notin DOMAIN env["h"].env

(***************************************************************************)
(* C3 (as claimed): a call that returns an error leaves the environment    *)
(* exactly as it was before the call.                                      *)
(***************************************************************************)
C3_FailedCallNoEffect ==
    \A j \in Steps :
        hist[j].op = "evaluate" /\ hist[j].r.t = "err" => hist[j].r.env = hist[j].pre

(***************************************************************************)
(* C4 (as claimed): no evaluate call aborts the process with a panic.      *)
(***************************************************************************)
C4_NoPanic == \A j \in Steps : hist[j].r.t # "panic"

(***************************************************************************)
(* C5: the Macro two-stage protocol.  A Macro called with as many          *)
(* arguments as parameters returns what evaluating, in the caller's        *)
(* environment, the expansion returns, the expansion being the value of    *)
(* the body in the captured environment with the parameters bound to the   *)
(* argument expressions as written; the caller's environment changes as    *)
(* the expansion's evaluation changes it and not otherwise.                *)
(***************************************************************************)
MacroEnvOf(c) ==
    BoundEnv(c.head.v.env, c.head.v.parameters, c.args, Len(c.args))
ExpansionOf(c) ==
    eval(c.head.v.value, MacroEnvOf(c), c.head.tr,
         [d |-> 1, fuel |-> MaxDepth - 1, lib |-> lib])

C5_MacroTwoStage ==
    Len(hist) >= 1 =>
        LET j == Len(hist)
            c == View(j)
        IN  IsMacroCall(c) /\ Len(c.args) = Len(c.head.v.parameters) =>
                LET x == ExpansionOf(c)
                    second == eval(x.v, c.head.env, x.tr, CallCx)
                IN  IF x.t = "ok"
                    THEN /\ hist[j].r.t = second.t
                         /\ hist[j].r.v = second.v
                         /\ hist[j].r.err.c = second.err.c
                         /\ hist[j].r.env = second.env
                         /\ hist[j].r.tr = second.tr
                    ELSE /\ hist[j].r.t = x.t
                         /\ hist[j].r.err.c = x.err.c
                         /\ hist[j].r.env = c.head.env

\* u = M (x) x was called on (define ' w 7): the argument reached the body
\* unevaluated, and the expansion's define bound w in the caller
C5_Witness ==
    /\ Len(hist) = 2
    /\ hist[1].input = DefU
    /\ hist[2].input = CallUDefine
    /\ IsMacroCall(View(2))
    /\ MacroEnvOf(View(2))["x"] = View(2).args[1]
    /\ hist[2].r.v = Num(7)
    /\ "w" \notin DOMAIN hist[2].pre
    /\ env["w"] = Num(7)

\* step j applies g to (+ 1 2), g being bound to a callable of kind k with
\* the one parameter x and the given body
AppliesG(j, k, body) ==
    /\ hist[j].op = "evaluate"
    /\ hist[j].input = CallG12
    /\ "g" \in DOMAIN hist[j].pre
    /\ hist[j].pre["g"].k = k
    /\ hist[j].pre["g"].parameters = <<"x">>
    /\ hist[j].pre["g"].value = body

(***************************************************************************)
(* C6 (as claimed): with g bound to the Macro M (x) (list ' x), applying g *)
(* to (+ 1 2) returns the list (+ 1 2) unevaluated; with the Lambda        *)
(* L (x) (list ' x) it returns a list that contains Number 3.              *)
(***************************************************************************)
C6_QuoteExampleAsClaimed ==
    \A j \in Steps : \A body \in {RawBody, ParsedBody} :
        /\ AppliesG(j, "macro", body) =>
              /\ hist[j].r.t = "ok"
              /\ hist[j].r.v = Lst(<<Sym("+"), Num(1), Num(2)>>)
        /\ AppliesG(j, "lambda", body) =>
              /\ hist[j].r.t = "ok"
              /\ hist[j].r.v.k = "list"
              /\ \E i \in 1..Len(hist[j].r.v.l) : hist[j].r.v.l[i] = Num(3)

(***************************************************************************)
(* C6 (amended): the example holds for the body (list ' x) taken as the    *)
(* three-element list, which only a value built without the parser has:    *)
(* the Macro applied to (+ 1 2) returns the list (+ 1 2) unevaluated and   *)
(* the Lambda returns the list of the quote builtin and Number 3, both     *)
(* leaving the caller's environment unchanged.  For the body parsed from   *)
(* the text, which is (list (' x)), the Lambda returns the list holding    *)
(* the Symbol x, and the Macro's expansion is the list (x): its evaluation *)
(* in the caller's environment fails with x unbound when the caller has    *)
(* no x.                                                                   *)
(***************************************************************************)
C6_QuoteExample ==
    \A j \in Steps :
        /\ AppliesG(j, "macro", RawBody) =>
              /\ hist[j].r.t = "ok"
              /\ hist[j].r.v = Lst(<<Sym("+"), Num(1), Num(2)>>)
              /\ hist[j].r.env = hist[j].pre
        /\ AppliesG(j, "lambda", RawBody) =>
              /\ hist[j].r.t = "ok"
              /\ hist[j].r.v = Lst(<<BuiltinMacro("'"), Num(3)>>)
              /\ hist[j].r.env = hist[j].pre
        /\ AppliesG(j, "lambda", ParsedBody) =>
              /\ hist[j].r.t = "ok"
              /\ hist[j].r.v = Lst(<<Sym("x")>>)
        /\ AppliesG(j, "macro", ParsedBody) /\ "x" \notin DOMAIN hist[j].pre =>
              /\ hist[j].r.t = "err"
              /\ hist[j].r.err.c = "Variable unbound"
              /\ hist[j].r.err.a = "x"

\* g was bound to the Macro with the unrewritten body and applied
C6_Witness ==
    /\ Len(hist) = 2
    /\ hist[1].op = "set"
    /\ AppliesG(2, "macro", RawBody)
    /\ hist[2].r.v = Lst(<<Sym("+"), Num(1), Num(2)>>)

(***************************************************************************)
(* C7: currying.  A Lambda or Macro with n parameters called with k < n    *)
(* arguments returns a value of the same kind with parameters k+1..n, the  *)
(* same body, and the captured environment plus the first k parameters     *)
(* bound to the arguments (evaluated for a Lambda, as written for a        *)
(* Macro); nothing beyond the head and, for a Lambda, the arguments is     *)
(* evaluated, and the binding of the callee is unchanged.  With            *)
(* f = L (a b) (+ a b), ((f 1) 2) is 3.                                    *)
(***************************************************************************)
IsPartialCall(c) ==
    /\ CallsUser(c)
    /\ Len(c.args) < Len(c.head.v.parameters)
    /\ IsLambdaCall(c) => ArgsRun(c).t = "ok"

C7_Currying ==
    Len(hist) >= 1 =>
        LET j == Len(hist)
            c == View(j)
            a == ArgsRun(c)
            f == c.head.v
            supplied == IF IsMacroCall(c) THEN c.args ELSE a.v.l
        IN  /\ IsPartialCall(c) =>
                  /\ hist[j].r.t = "ok"
                  /\ hist[j].r.v =
                        [k |-> f.k,
                         parameters |-> SubSeq(f.parameters, Len(c.args) + 1,
                                               Len(f.parameters)),
                         value |-> f.value,
                         env |-> BoundEnv(f.env, f.parameters, supplied, Len(c.args))]
                  /\ hist[j].r.tr = IF IsMacroCall(c) THEN c.head.tr ELSE a.tr
                  /\ c.expr.l[1].k = "symbol" => hist[j].r.env[c.expr.l[1].s] = f
            /\ /\ hist[j].input = CallF1then2
               /\ "f" \in DOMAIN hist[j].pre
               /\ hist[j].pre["f"].k = "lambda"
               /\ hist[j].pre["f"].parameters = <<"a", "b">>
               /\ hist[j].pre["f"].value = Lst(<<Sym("+"), Sym("a"), Sym("b")>>)
               => hist[j].r.v = Num(3)

\* (f 1) after f = L (a b) (+ a b): a Lambda of (b) with a bound to 1
C7_Witness ==
    /\ Len(hist) = 2
    /\ hist[1].input = DefAdd
    /\ hist[2].input = CallF1
    /\ IsPartialCall(View(2))
    /\ hist[2].r.v.k = "lambda"
    /\ hist[2].r.v.parameters = <<"b">>
    /\ hist[2].r.v.env["a"] = Num(1)

(***************************************************************************)
(* C8 (as claimed): a Lambda or Macro called with more arguments than it   *)
(* has parameters returns the too-many-arguments error and does not        *)
(* evaluate the body.                                                      *)
(***************************************************************************)
IsOverCall(c) == CallsUser(c) /\ Len(c.args) > Len(c.head.v.parameters)

C8_TooManyAsClaimed ==
    Len(hist) >= 1 =>
        LET j == Len(hist)
            c == View(j)
        IN  IsOverCall(c) =>
                /\ hist[j].r.t = "err"
                /\ hist[j].r.err.c = "Too many arguments to lambda"
                /\ ~BodyEvaluated(hist[j])

(***************************************************************************)
(* C8 (amended): a Lambda or Macro called with more arguments than it has  *)
(* parameters never evaluates the body and returns an error: the           *)
(* too-many-arguments error for a Macro, and for a Lambda whose arguments  *)
(* all evaluate; for a Lambda with an argument that fails, the error of    *)
(* the first argument that fails.                                          *)
(***************************************************************************)
C8_TooMany ==
    Len(hist) >= 1 =>
        LET j == Len(hist)
            c == View(j)
            a == ArgsRun(c)
        IN  IsOverCall(c) =>
                /\ hist[j].r.t = "err"
                /\ ~BodyEvaluated(hist[j])
                /\ IF IsLambdaCall(c) /\ a.t # "ok"
                   THEN /\ a.t = "err"
                        /\ hist[j].r.err.c = a.err.c
                        /\ hist[j].r.err.a = a.err.a
                        /\ hist[j].r.tr = a.tr
                   ELSE /\ hist[j].r.err.c = "Too many arguments to lambda"
                        /\ hist[j].r.tr = IF IsMacroCall(c) THEN c.head.tr ELSE a.tr

\* (f 1 2 3) after f = L (a b) (+ a b)
C8_Witness ==
    /\ Len(hist) = 2
    /\ hist[1].input = DefAdd
    /\ hist[2].input = CallF123
    /\ IsOverCall(View(2))
    /\ hist[2].r.err.c = "Too many arguments to lambda"

(***************************************************************************)
(* C9 (as claimed): is_truthy(e) is false exactly when e is the empty      *)
(* List, for every value an evaluation returns.                            *)
(***************************************************************************)
C9_Truthiness ==
    \A j \in Steps :
        hist[j].r.t = "ok" => (is_truthy(hist[j].r.v) <=> hist[j].r.v # Lst(<<>>))

(***************************************************************************)
(* C10 (as claimed): cond evaluates its conditions left to right in the    *)
(* caller's environment, returns the evaluated consequence of the first    *)
(* pair whose condition is not the empty list and evaluates nothing after  *)
(* it; with no such pair it returns the evaluated default when the         *)
(* argument count is odd and the empty list when it is even.               *)
(***************************************************************************)
RECURSIVE CondAsClaimed(_, _, _, _)
CondAsClaimed(arguments, i, env0, tr) ==
    IF i >= Len(arguments) \div 2
    THEN IF Len(arguments) % 2 = 0 THEN Ok(Lst(<<>>), env0, tr)
         ELSE eval(arguments[Len(arguments)], env0, tr, CallCx)
    ELSE LET c == eval(arguments[2 * i + 1], env0, tr, CallCx)
         IN  IF c.t # "ok" THEN c
             ELSE IF c.v # Lst(<<>>)
             THEN eval(arguments[2 * i + 2], c.env, c.tr, CallCx)
             ELSE CondAsClaimed(arguments, i + 1, c.env, c.tr)

IsCondCall(c) ==
    /\ c.isCall
    /\ c.expr.l[1] = Sym("cond")
    /\ c.head.t = "ok"
    /\ c.head.v = BuiltinMacro("cond")

C10_Cond ==
    Len(hist) >= 1 =>
        LET j == Len(hist)
            c == View(j)
        IN  IsCondCall(c) =>
                LET ref == CondAsClaimed(c.args, 0, c.head.env, c.head.tr)
                IN  /\ hist[j].r.t = ref.t
                    /\ hist[j].r.v = ref.v
                    /\ hist[j].r.env = ref.env
                    /\ hist[j].r.tr = ref.tr

(***************************************************************************)
(* Sessions on the evaluator itself: list evaluation, builtin functions,   *)
(* define and quote.  The embedding program binds the quote builtin under  *)
(* the name q as well, so that a text can call it directly; the evaluator  *)
(* is either of the two the source holds.                                  *)
(***************************************************************************)
InitEither ==
    /\ env = set_environment(Environment_default)
    /\ hist = <<>>
    /\ alive = TRUE
    /\ lib \in BOOLEAN
    /\ heap = heap_default

EmptyList == Text(<<"(", ")">>)
\* the head y is unbound
HeadFails == Text(<<"(", "y", "(", "define", "'", "x", "1", ")", ")">>)
\* the head binds x to the + builtin and returns it
HeadDefines == Text(<<"(", "(", "define", "'", "x", "+", ")", "1", "2", ")">>)
\* the second argument reads what the first one bound
ArgDefines == Text(<<"(", "+", "(", "define", "'", "x", "1", ")", "x", ")">>)
\* the first argument fails
ArgFails == Text(<<"(", "+", "y", "(", "define", "'", "x", "1", ")", ")">>)
DefX1 == Text(<<"(", "define", "'", "x", "1", ")">>)
DefX2 == Text(<<"(", "define", "'", "x", "2", ")">>)
LookX == Text(<<"x">>)
DefineNumber == Text(<<"(", "define", "1", "2", ")">>)
DefineOne == Text(<<"(", "define", "'", "x", ")">>)
DefineThree == Text(<<"(", "define", "'", "x", "1", "2", ")">>)
QuoteX == Text(<<"(", "q", "x", ")">>)
QuoteNone == Text(<<"(", "q", ")">>)
QuoteTwo == Text(<<"(", "q", "x", "y", ")">>)
QuoteDefine == Text(<<"(", "q", "(", "define", "'", "w", "7", ")", ")">>)
MakeLambda == Text(<<"(", "L", "(", "a", ")", "(", "define", "'", "w", "7", ")", ")">>)
NumberHead == Text(<<"(", "1", "2", ")">>)

EvalInputs ==
    { EmptyList, HeadFails, HeadDefines, ArgDefines, ArgFails,
      DefX1, DefX2, LookX, DefineNumber, DefineOne, DefineThree,
      QuoteX, QuoteNone, QuoteTwo, QuoteDefine, MakeLambda, NumberHead }

NextEval ==
    \/ \E input \in EvalInputs : Evaluate(input, MaxCalls)
    \/ Set("q", BuiltinMacro("'"), MaxCalls)

SpecEval == InitEither /\ [][NextEval]_vars

\* the kinds whose call both evaluators dispatch to
Callable == {"builtin function", "builtin macro", "lambda", "macro"}
\* how many times the step entered eval on e in the caller's environment
Entered(h, e) ==
    Cardinality({t \in 1..Len(h.r.tr) : h.r.tr[t] = [e |-> e, d |-> 0]})

(***************************************************************************)
(* C11: evaluating a List.  The empty list returns the empty-list error    *)
(* and evaluates nothing.  Otherwise the head is evaluated first, once;    *)
(* when it fails its error is returned and nothing else is evaluated; when *)
(* it returns a callable value, the outcome is that of the value's call on *)
(* the remaining elements as written, in the environment as the head left  *)
(* it, and every expression evaluated after the head is evaluated by that  *)
(* call.                                                                   *)
(***************************************************************************)
C11_ListEval ==
    Len(hist) >= 1 =>
        LET j == Len(hist)
            c == View(j)
            r == hist[j].r
        IN  c.parsed /\ c.expr.k = "list" =>
                IF c.expr.l = <<>>
                THEN /\ r.t = "err"
                     /\ r.err.c = "Attempt to evaluate empty list"
                     /\ r.tr = <<[e |-> c.expr, d |-> 0]>>
                     /\ r.env = hist[j].pre
                ELSE /\ SubSeq(r.tr, 1, Len(c.head.tr)) = c.head.tr
                     /\ r.tr[2] = [e |-> c.expr.l[1], d |-> 0]
                     /\ c.head.t # "ok" =>
                           /\ r.t = c.head.t
                           /\ r.err.c = c.head.err.c
                           /\ r.err.a = c.head.err.a
                           /\ r.tr = c.head.tr
                           /\ r.env = c.head.env
                     /\ c.head.t = "ok" /\ c.head.v.k \in Callable =>
                           LET d == call(c.head.v, Tail(c.expr.l), c.head.env,
                                         c.head.tr, CallCx)
                           IN  /\ r.t = d.t
                               /\ r.v = d.v
                               /\ r.err.c = d.err.c
                               /\ r.env = d.env
                               /\ r.tr = d.tr

\* ((define ' x +) 1 2): the head was evaluated once, it bound x, and the
\* call of the + it returned gave 3
C11_Witness ==
    /\ Len(hist) = 1
    /\ hist[1].input = HeadDefines
    /\ View(1).head.v = BuiltinFunction("+")
    /\ Entered(hist[1], View(1).expr.l[1]) = 1
    /\ hist[1].r.v = Num(3)
    /\ "x" \notin DOMAIN hist[1].pre
    /\ env["x"] = BuiltinFunction("+")

RECURSIVE InOrder(_, _, _, _, _)
\* the arguments evaluated one after the other from the i-th on, each in the
\* environment the one before it left: the values so far, the index of the
\* first that failed (0 if none) and its outcome
InOrder(arguments, i, values, env0, tr) ==
    IF i > Len(arguments)
    THEN [failed |-> 0, values |-> values, last |-> Ok(null, env0, tr)]
    ELSE LET r == eval(arguments[i], env0, tr, CallCx)
         IN  IF r.t # "ok" THEN [failed |-> i, values |-> values, last |-> r]
             ELSE InOrder(arguments, i + 1, Append(values, r.v), r.env, r.tr)

IsBuiltinFunctionCall(c) == CallsKind(c, {"builtin function"})

(***************************************************************************)
(* C12: a BuiltinFunction call.  The arguments are evaluated once each,    *)
(* left to right, each in the caller's environment as the one before left  *)
(* it.  When one fails, the call returns its error tagged with its 1-based *)
(* index, nothing after it is evaluated and the environment is as the      *)
(* failing argument left it (the native callable did not run).  When all   *)
(* succeed, the outcome is that of the native callable on the values in    *)
(* argument order, and nothing else was evaluated.                         *)
(***************************************************************************)
C12_BuiltinFunctionCall ==
    Len(hist) >= 1 =>
        LET j == Len(hist)
            c == View(j)
            r == hist[j].r
            a == InOrder(c.args, 1, <<>>, c.head.env, c.head.tr)
        IN  IsBuiltinFunctionCall(c) =>
                IF a.failed # 0
                THEN /\ r.t = a.last.t
                     /\ r.err.c = a.last.err.c
                     /\ r.err.a = a.last.err.a
                     /\ r.t = "err" =>
                           \E f \in 1..Len(r.err.ctx) :
                               r.err.ctx[f] = [f |-> "Argument number", n |-> a.failed]
                     /\ r.env = a.last.env
                     /\ r.tr = a.last.tr
                ELSE LET n == native_function(c.head.v.name, a.values,
                                              a.last.env, a.last.tr)
                     IN  /\ r.t = n.t
                         /\ r.v = n.v
                         /\ r.err.c = n.err.c
                         /\ r.env = n.env
                         /\ r.tr = a.last.tr

\* (+ (define ' x 1) x): the second argument read the x the first one bound
C12_Witness ==
    /\ Len(hist) = 1
    /\ hist[1].input = ArgDefines
    /\ IsBuiltinFunctionCall(View(1))
    /\ "x" \notin DOMAIN hist[1].pre
    /\ hist[1].r.v = Num(2)
    /\ env["x"] = Num(1)

\* c calls the define builtin
IsDefineCall(c) == IsBuiltinFunctionCall(c) /\ c.head.v = BuiltinFunction("define")
\* c calls define with two arguments that evaluate, the first to a Symbol
DefinesSymbol(c) ==
    /\ IsDefineCall(c)
    /\ Len(c.args) = 2
    /\ LET a == InOrder(c.args, 1, <<>>, c.head.env, c.head.tr)
       IN  a.failed = 0 /\ a.values[1].k = "symbol"

(***************************************************************************)
(* C13: a successful define.  When the first argument evaluates to the     *)
(* Symbol s and the second to v, the call returns v and the caller's       *)
(* environment afterwards is the one the arguments left with s bound to v, *)
(* whether or not s was bound before, every other binding as it was; an    *)
(* evaluation of s that follows in that environment returns v.             *)
(***************************************************************************)
C13_DefineBinds ==
    Len(hist) >= 1 =>
        LET j == Len(hist)
            c == View(j)
            r == hist[j].r
            a == InOrder(c.args, 1, <<>>, c.head.env, c.head.tr)
            s == a.values[1].s
            v == a.values[2]
        IN  /\ DefinesSymbol(c) =>
                  /\ r.t = "ok"
                  /\ r.v = v
                  /\ DOMAIN r.env = (DOMAIN a.last.env) \cup {s}
                  /\ r.env[s] = v
                  /\ \A x \in (DOMAIN a.last.env) \ {s} : r.env[x] = a.last.env[x]
                  /\ env = r.env
            /\ /\ j >= 2
               /\ c.parsed
               /\ c.expr.k = "symbol"
               /\ DefinesSymbol(View(j - 1))
               /\ View(j - 1).args[1] = Lst(<<Sym("'"), c.expr>>)
               => /\ r.t = "ok"
                  /\ r.v = hist[j - 1].r.v

\* x was bound to 1 and (define ' x 2) overwrote it
C13_Witness ==
    /\ Len(hist) = 2
    /\ hist[1].input = DefX1
    /\ hist[2].input = DefX2
    /\ DefinesSymbol(View(2))
    /\ hist[2].pre["x"] = Num(1)
    /\ hist[2].r.v = Num(2)
    /\ env["x"] = Num(2)
    /\ env["define"] = BuiltinFunction("define")

(***************************************************************************)
(* C14: define validates before it mutates.  When the arguments of a       *)
(* define call all evaluate and they are not two, or the first value is    *)
(* not a Symbol, the call returns an error (the two-arguments error, else  *)
(* the type error naming symbol) and the environment is as the arguments   *)
(* left it.                                                                *)
(***************************************************************************)
C14_DefineValidates ==
    Len(hist) >= 1 =>
        LET j == Len(hist)
            c == View(j)
            r == hist[j].r
            a == InOrder(c.args, 1, <<>>, c.head.env, c.head.tr)
        IN  /\ IsDefineCall(c)
            /\ a.failed = 0
            /\ Len(a.values) # 2 \/ a.values[1].k # "symbol"
            => /\ r.t = "err"
               /\ r.err.c = IF Len(a.values) # 2 THEN "Define requires two arguments"
                            ELSE "type error"
               /\ r.env = a.last.env
               /\ env = a.last.env

\* (define ' x 1 2): three values, the first the Symbol x; x stays unbound
C14_Witness ==
    /\ Len(hist) = 1
    /\ hist[1].input = DefineThree
    /\ IsDefineCall(View(1))
    /\ Len(View(1).args) = 3
    /\ hist[1].r.err.c = "Define requires two arguments"
    /\ "x" \notin DOMAIN env

(***************************************************************************)
(* A program that copies an Environment and sets names on the original and *)
(* on the copy.                                                            *)
(***************************************************************************)
SetNames == {"x", "+"}
SetValues == {Num(1), Num(2)}

NextEnv ==
    \/ CloneEnv(MaxSession)
    \/ \E h \in 1..2 : \E s \in SetNames : \E v \in SetValues :
          SetAt(h, s, v, MaxSession)

SpecEnv == Init /\ [][NextEnv]_vars

\* every name a get may be asked for
AllNames(m) == SetNames \cup UNION {DOMAIN m.mem[i] : i \in 1..Len(m.mem)}
\* every get on the h-th value gives the same in m1 and m2
SameGets(m1, m2, h) ==
    \A s \in AllNames(m1) \cup AllNames(m2) :
        Environment_get_at(m1, h, s) = Environment_get_at(m2, h, s)

(***************************************************************************)
(* C15: Environment copies are independent.  A set on one Environment      *)
(* value leaves every get on every other value as it was; so once env2 was *)
(* made as a copy of env1, after any sets on env1 alone env2 still gives   *)
(* what env1 gave when it was copied, and after any sets on env2 alone     *)
(* env1 gives what it gave then.                                           *)
(***************************************************************************)
C15_CopiesIndependent ==
    /\ Len(hist) >= 1 /\ hist[Len(hist)].op = "set_at" =>
          \A h \in 1..Len(heap.ref) :
              h # hist[Len(hist)].h => SameGets(hist[Len(hist)].before, heap, h)
    /\ \A k \in Steps :
          hist[k].op = "clone" =>
              \A h \in 1..2 :
                  (\A i \in (k + 1)..Len(hist) :
                       hist[i].op = "set_at" /\ hist[i].h = h)
                  => \A s \in AllNames(heap) :
                         Environment_get_at(heap, 3 - h, s)
                             = Environment_get_at(hist[k].before, 1, s)

\* after the copy, x was set to 1 on env1 and to 2 on env2
C15_Witness ==
    /\ Len(hist) = 3
    /\ hist[1].op = "clone"
    /\ hist[2].op = "set_at" /\ hist[2].h = 1
    /\ hist[3].op = "set_at" /\ hist[3].h = 2
    /\ Environment_get_at(heap, 1, "x") = [some |-> TRUE, v |-> Num(1)]
    /\ Environment_get_at(heap, 2, "x") = [some |-> TRUE, v |-> Num(2)]

(***************************************************************************)
(* An embedding program that starts from the empty Environment, binds      *)
(* names with Environment::set and evaluates symbols.                      *)
(***************************************************************************)
InitEmpty ==
    /\ env = Environment_default
    /\ hist = <<>>
    /\ alive = TRUE
    /\ lib \in BOOLEAN
    /\ heap = heap_default

LookZzz == Text(<<"zzz">>)
LookY == Text(<<"y">>)
SymbolInputs == {LookZzz, LookX, LookY}

NextSymbol ==
    \/ \E input \in SymbolInputs : Evaluate(input, MaxSession)
    \/ \E v \in {Num(1), Num(2)} : Set("x", v, MaxSession)
    \/ Set("y", Lst(<<Sym("zzz"), Num(1)>>), MaxSession)

SpecSymbol == InitEmpty /\ [][NextSymbol]_vars

(***************************************************************************)
(* C16: evaluating a Symbol.  The evaluation of the Symbol s returns the   *)
(* value s is bound to, as it is, when s is bound, and the unbound-        *)
(* variable error naming s when it is not (so for zzz in the empty         *)
(* environment); it evaluates nothing else and leaves the environment as   *)
(* it was.                                                                 *)
(***************************************************************************)
C16_SymbolEval ==
    Len(hist) >= 1 =>
        LET j == Len(hist)
            c == View(j)
            r == hist[j].r
            pre == hist[j].pre
        IN  c.parsed /\ c.expr.k = "symbol" =>
                /\ IF c.expr.s \in DOMAIN pre
                   THEN r.t = "ok" /\ r.v = pre[c.expr.s]
                   ELSE /\ r.t = "err"
                        /\ r.err.c = "Variable unbound"
                        /\ r.err.a = c.expr.s
                /\ r.tr = <<[e |-> c.expr, d |-> 0]>>
                /\ r.env = pre
                /\ env = pre

\* zzz in the empty environment, and then y, bound to a list
C16_Witness ==
    /\ Len(hist) = 3
    /\ hist[1].input = LookZzz
    /\ hist[1].pre = Environment_default
    /\ hist[1].r.t = "err"
    /\ hist[1].r.err.a = "zzz"
    /\ hist[2].op = "set"
    /\ hist[3].input = LookY
    /\ View(3).expr = Sym("y")
    /\ hist[3].r.v = Lst(<<Sym("zzz"), Num(1)>>)

IsQuoteCall(c) == CallsKind(c, {"builtin macro"}) /\ c.head.v = BuiltinMacro("'")
\* c calls the L builtin with a list of symbols and a body
IsLambdaConstruction(c) ==
    /\ CallsKind(c, {"builtin macro"})
    /\ c.head.v = BuiltinMacro("L")
    /\ Len(c.args) = 2
    /\ c.args[1].k = "list"
    /\ \A i \in 1..Len(c.args[1].l) : c.args[1].l[i].k = "symbol"

(***************************************************************************)
(* C17: a BuiltinMacro call hands the argument expressions to the native   *)
(* callable as written: a call of the quote builtin or of the L builtin    *)
(* evaluates nothing beyond the head.  The quote builtin called with one   *)
(* argument returns that expression unchanged and leaves the environment   *)
(* as it was; called with any other number of arguments it returns the     *)
(* exactly-one-argument error.  The L builtin keeps its second argument    *)
(* as the body, unevaluated.                                               *)
(***************************************************************************)
C17_QuoteUnevaluated ==
    Len(hist) >= 1 =>
        LET j == Len(hist)
            c == View(j)
            r == hist[j].r
        IN  /\ IsQuoteCall(c) =>
                  /\ r.tr = c.head.tr
                  /\ r.env = c.head.env
                  /\ r.env = hist[j].pre
                  /\ IF Len(c.args) = 1
                     THEN r.t = "ok" /\ r.v = c.args[1]
                     ELSE /\ r.t = "err"
                          /\ r.err.c = "Quote must be called on exactly one argument"
            /\ IsLambdaConstruction(c) =>
                  /\ r.tr = c.head.tr
                  /\ r.t = "ok"
                  /\ r.v.value = c.args[2]
                  /\ r.env = hist[j].pre

\* q is the quote builtin; (q (define ' w 7)) returned the list (define
\* (' w) 7) and w is not bound
C17_Witness ==
    /\ Len(hist) = 2
    /\ hist[1].op = "set"
    /\ hist[2].input = QuoteDefine
    /\ IsQuoteCall(View(2))
    /\ hist[2].r.v = Lst(<<Sym("define"), Lst(<<Sym("'"), Sym("w")>>), Num(7)>>)
    /\ "w" \notin DOMAIN env

(***************************************************************************)
(* C18 (as claimed): a list whose head evaluates to a Number, a Symbol or  *)
(* a List returns a cannot-call error whatever the arguments, evaluates    *)
(* nothing beyond the head and leaves the environment unchanged.           *)
(***************************************************************************)
C18_NonCallableHead ==
    Len(hist) >= 1 =>
        LET j == Len(hist)
            c == View(j)
            r == hist[j].r
        IN  CallsKind(c, {"number", "symbol", "list"}) =>
                /\ r.t = "err"
                /\ r.err.c \in {"Cannot call as if it were a function",
                                "Cannot call as a function"}
                /\ r.err.a = c.head.v.k
                /\ r.tr = c.head.tr
                /\ r.env = c.head.env

(***************************************************************************)
(* The parser on its own: a run starts with one token stream, written as   *)
(* a text of words separated by spaces, and parses it.                     *)
(***************************************************************************)
Words == {"(", ")", "'", "x"}
Streams == UNION {[1..n -> Words] : n \in 0..MaxTokens}

InitParse ==
    /\ env = set_environment(Environment_default)
    /\ \E ws \in Streams :
          hist = <<[op |-> "input", input |-> Text(ws), pre |-> env,
                    r |-> Ok(null, env, <<>>)]>>
    /\ alive = TRUE
    /\ lib = FALSE
    /\ heap = heap_default

NextParse == Parse

SpecParse == InitParse /\ [][NextParse]_vars

\* the texts of the tokens of the run's input
Values == LET tokens == tokenize(hist[1].input)
          IN  [i \in 1..Len(tokens) |-> tokens[i].value]
ParseDone == Len(hist) = 2 /\ hist[2].op = "parse"

RECURSIVE UnmatchedClose(_, _, _)
\* a close-token at or after i, depth lists being open, closes none of them
UnmatchedClose(vs, i, depth) ==
    IF i > Len(vs) THEN FALSE
    ELSE IF vs[i] = "(" THEN UnmatchedClose(vs, i + 1, depth + 1)
    ELSE IF vs[i] = ")" THEN depth = 0 \/ UnmatchedClose(vs, i + 1, depth - 1)
    ELSE UnmatchedClose(vs, i + 1, depth)

RECURSIVE OpenAtEnd(_, _, _)
\* the number of lists still open when the stream ends, -1 after an
\* unmatched close
OpenAtEnd(vs, i, depth) ==
    IF i > Len(vs) THEN depth
    ELSE IF vs[i] = "(" THEN OpenAtEnd(vs, i + 1, depth + 1)
    ELSE IF vs[i] = ")"
    THEN IF depth = 0 THEN 0 - 1 ELSE OpenAtEnd(vs, i + 1, depth - 1)
    ELSE OpenAtEnd(vs, i + 1, depth)

\* a quote-prefix token is the last element of a list, or the last token
DanglingQuote(vs) ==
    \E i \in 1..Len(vs) : vs[i] = "'" /\ (i = Len(vs) \/ vs[i + 1] = ")")

(***************************************************************************)
(* C19 (as claimed): parse returns a syntax error for every token stream   *)
(* in which a close-token has no matching open-token, which ends before a  *)
(* list is closed, or in which a quote-prefix token has nothing following  *)
(* it, be it the last element of a list or alone at top level.             *)
(***************************************************************************)
C19_SyntaxErrors ==
    /\ ParseDone
    /\ \/ UnmatchedClose(Values, 1, 0)
       \/ OpenAtEnd(Values, 1, 0) > 0
       \/ DanglingQuote(Values)
    => hist[2].r.t = "err"

RECURSIVE ElementsFrom(_, _, _)
\* the elements of the list whose open-token is before i, each parsed on
\* its own, up to the close-token of the list
ElementsFrom(tokens, i, acc) ==
    IF i > Len(tokens) \/ tokens[i].value = ")" THEN acc
    ELSE ElementsFrom(tokens, parse(tokens, i).next, Append(acc, parse(tokens, i).v))

RECURSIVE Quoted(_, _)
\* element i is the one a quote-prefix before it took: the element before
\* it is the Symbol ' and was not itself taken
Quoted(elements, i) ==
    i > 1 /\ elements[i - 1] = Sym("'") /\ ~Quoted(elements, i - 1)

RECURSIVE Rewritten(_, _)
\* the elements from the i-th on, with every quote-prefix that was not
\* taken paired with the element it took
Rewritten(elements, i) ==
    IF i > Len(elements) THEN <<>>
    ELSE IF Quoted(elements, i) THEN Rewritten(elements, i + 1)
    ELSE IF elements[i] = Sym("'")
    THEN <<Lst(<<elements[i], elements[i + 1]>>)>> \o Rewritten(elements, i + 1)
    ELSE <<elements[i]>> \o Rewritten(elements, i + 1)

(***************************************************************************)
(* C20: the quote-prefix rewrite.  When a parenthesised list parses, its   *)
(* elements are those of the parsed element sequence, in order, with each  *)
(* Symbol ' that no pair before it took replaced, together with the        *)
(* element after it, by the 2-element List of the two; the element taken   *)
(* is taken even when it is itself the Symbol '.                           *)
(***************************************************************************)
C20_QuoteRewrite ==
    /\ ParseDone
    /\ Len(Values) >= 1
    /\ Values[1] = "("
    /\ hist[2].r.t = "ok"
    => hist[2].r.v = Lst(Rewritten(ElementsFrom(tokenize(hist[1].input), 2, <<>>), 1))

\* ( ' ' x ): the first quote-prefix took the second, and x stands alone
C20_Witness ==
    /\ ParseDone
    /\ Values = <<"(", "'", "'", "x", ")">>
    /\ ElementsFrom(tokenize(hist[1].input), 2, <<>>) = <<Sym("'"), Sym("'"), Sym("x")>>
    /\ hist[2].r.v = Lst(<<Lst(<<Sym("'"), Sym("'")>>), Sym("x")>>)

(***************************************************************************)
(* Sessions on source texts as they are typed: a name quoted with no       *)
(* space, and texts that a comment will be added to.                       *)
(***************************************************************************)
ListQuotedName == Text(<<"(", "list", "'x", ")">>)
ListQuoteName == Text(<<"(", "list", "'", "x", ")">>)
DefineQuotedName == Text(<<"(", "define", "'x", "1", ")">>)
ListTwoQuotedNames == Text(<<"(", "list", "'x", "'x", ")">>)
One == Text(<<"1">>)
AddOneTwo == Text(<<"(", "+", "1", "2", ")">>)
ListOneTwo == Text(<<"(", "list", "1", "2", ")">>)

TextInputs ==
    { ListQuotedName, ListQuoteName, DefineQuotedName, ListTwoQuotedNames,
      One, AddOneTwo, ListOneTwo, LookX, DefX1, EmptyList }

NextText == \E input \in TextInputs : Evaluate(input, MaxCalls)

SpecText == Init /\ [][NextText]_vars

\* a character that ends a word
EndsWord(ch) == is_whitespace(ch) \/ ch \in {"(", ")"}
\* how many lists are open before position i of the text t
OpenBefore(t, i) ==
    Cardinality({m \in 1..(i - 1) : t[m] = "("})
        - Cardinality({m \in 1..(i - 1) : t[m] = ")"})
\* position i of t is a quote character with a name right after it
QuotedNameAt(t, i) ==
    /\ t[i] = "'"
    /\ i < Len(t)
    /\ ~EndsWord(t[i + 1])
    /\ i = 1 \/ EndsWord(t[i - 1])

RECURSIVE Spaced(_, _)
\* t from position i on, with a space put between every such quote
\* character and its name
Spaced(t, i) ==
    IF i > Len(t) THEN <<>>
    ELSE IF QuotedNameAt(t, i) THEN <<"'", " ">> \o Spaced(t, i + 1)
    ELSE <<t[i]>> \o Spaced(t, i + 1)

(***************************************************************************)
(* C21 (as claimed): a text in which 'x, the quote character and a name    *)
(* with nothing between them, is an element of a list parses to what the   *)
(* same text parses to with ' x written in its place: the 2-element List   *)
(* of the Symbol ' and the Symbol x stands at that position.               *)
(***************************************************************************)
C21_QuotedName ==
    Len(hist) >= 1 =>
        LET t == hist[Len(hist)].input
            p == parse(tokenize(t), 1)
            q == parse(tokenize(Spaced(t, 1)), 1)
        IN  (\E i \in 1..Len(t) : QuotedNameAt(t, i) /\ OpenBefore(t, i) > 0) =>
                /\ p.t = q.t
                /\ p.v = q.v

(***************************************************************************)
(* Rendering an expression and parsing the text back: a run starts with    *)
(* one expression made of Symbols, Numbers and Lists.                      *)
(***************************************************************************)
Atoms == {Sym("x"), Sym("'"), Sym("1"), Num(1)}
\* the lists of up to MaxElems atoms
FlatLists == {Lst(l) : l \in UNION {[1..n -> Atoms] : n \in 0..MaxElems}}
Expressions ==
    Atoms \cup FlatLists
        \cup {Lst(<<l>>) : l \in FlatLists}
        \cup {Lst(<<a, l>>) : a \in Atoms, l \in FlatLists}

InitRender ==
    /\ env = set_environment(Environment_default)
    /\ \E e \in Expressions :
          hist = <<[op |-> "expression", input |-> <<>>, pre |-> env,
                    r |-> Ok(e, env, <<>>)]>>
    /\ alive = TRUE
    /\ lib = FALSE
    /\ heap = heap_default

NextRender == RoundTrip

SpecRender == InitRender /\ [][NextRender]_vars

RECURSIVE RewrittenWhole(_, _)
\* Rewritten, with a quote-prefix that is last and not taken left alone
RewrittenWhole(elements, i) ==
    IF i > Len(elements) THEN <<>>
    ELSE IF Quoted(elements, i) THEN RewrittenWhole(elements, i + 1)
    ELSE IF elements[i] = Sym("'") /\ i < Len(elements)
    THEN <<Lst(<<elements[i], elements[i + 1]>>)>> \o RewrittenWhole(elements, i + 1)
    ELSE <<elements[i]>> \o RewrittenWhole(elements, i + 1)

RECURSIVE UpToRewrite(_)
\* e with the quote-prefix rewrite applied in every list
UpToRewrite(e) ==
    IF e.k = "list"
    THEN Lst(RewrittenWhole([i \in 1..Len(e.l) |-> UpToRewrite(e.l[i])], 1))
    ELSE e

(***************************************************************************)
(* C22 (as claimed): round trip.  For every expression e made of Numbers,  *)
(* Symbols and Lists, parsing the tokens of the rendered text of e         *)
(* consumes the text and returns e, or e with the quote-prefix rewrite     *)
(* applied.                                                                *)
(***************************************************************************)
C22_RoundTrip ==
    Len(hist) = 2 /\ hist[2].op = "roundtrip" =>
        /\ hist[2].r.t = "ok"
        /\ ~hist[2].r.rest
        /\ hist[2].r.v \in {hist[1].r.v, UpToRewrite(hist[1].r.v)}

\* a line comment
Comment == <<";", "c">>
\* the text t with the comment after it
WithTrailing(t) == t \o <<" ">> \o Comment
\* position p of t is the space between two elements of a list
BetweenElements(t, p) ==
    /\ 1 < p /\ p < Len(t)
    /\ t[p] = " "
    /\ OpenBefore(t, p) > 0
    /\ t[p - 1] # "("
    /\ t[p + 1] # ")"
\* the text t with the comment on a line of its own after position p
WithCommentAt(t, p) ==
    SubSeq(t, 1, p) \o Comment \o <<"\n">> \o SubSeq(t, p + 1, Len(t))
\* t with one comment added, after it or between two elements of a list
Commented(t) ==
    {WithTrailing(t)} \cup {WithCommentAt(t, p) : p \in {q \in 1..Len(t) : BetweenElements(t, q)}}

(***************************************************************************)
(* C23 (as claimed): a comment never reaches the parser and never alters a *)
(* result.  For the text t of an evaluate call and every text u that is t  *)
(* with a ; line comment added after it or on a line between two elements  *)
(* of a list, no token of u is a comment, u parses to what t parses to,    *)
(* and evaluate on u, from the environment the call started from, gives    *)
(* the outcome and the environment the call on t gave.                     *)
(***************************************************************************)
C23_CommentsIgnored ==
    Len(hist) >= 1 =>
        LET h == hist[Len(hist)]
            p == parse(tokenize(h.input), 1)
        IN  \A u \in Commented(h.input) :
                LET tokens == tokenize(u)
                    q == parse(tokens, 1)
                    r == evaluate(u, h.pre, lib)
                IN  /\ \A i \in 1..Len(tokens) : tokens[i].chars[1] # ";"
                    /\ q.t = p.t
                    /\ q.v = p.v
                    /\ r.t = h.r.t
                    /\ r.v = h.r.v
                    /\ r.err.c = h.r.err.c
                    /\ r.env = h.r.env

(***************************************************************************)
(* C24: the order of the arity check.  A Lambda called with more arguments *)
(* than parameters evaluates every argument first, left to right in the    *)
(* caller's environment: when one fails the call returns that argument's   *)
(* error, not the too-many-arguments error, and otherwise it returns the   *)
(* too-many-arguments error; either way the caller's environment and the   *)
(* evaluation log are as the arguments left them.  A Macro called with     *)
(* more arguments than parameters returns the too-many-arguments error     *)
(* with nothing evaluated after the head and the caller's environment as   *)
(* it was before the call.                                                 *)
(***************************************************************************)
C24_ArityOrder ==
    Len(hist) >= 1 =>
        LET j == Len(hist)
            c == View(j)
            r == hist[j].r
            a == InOrder(c.args, 1, <<>>, c.head.env, c.head.tr)
        IN  /\ IsLambdaCall(c) /\ Len(c.args) > Len(c.head.v.parameters) =>
                /\ r.t # "ok"
                /\ IF a.failed # 0
                   THEN /\ r.t = a.last.t
                        /\ r.err.c = a.last.err.c
                        /\ r.err.a = a.last.err.a
                        /\ r.t = "err" =>
                              \E f \in 1..Len(r.err.ctx) :
                                  r.err.ctx[f] = [f |-> "Argument number", n |-> a.failed]
                   ELSE /\ r.t = "err"
                        /\ r.err.c = "Too many arguments to lambda"
                /\ r.env = a.last.env
                /\ r.tr = a.last.tr
                /\ env = a.last.env
            /\ IsMacroCall(c) /\ Len(c.args) > Len(c.head.v.parameters) =>
                /\ r.t = "err"
                /\ r.err.c = "Too many arguments to lambda"
                /\ r.tr = c.head.tr
                /\ r.env = hist[j].pre
                /\ env = hist[j].pre

\* after f is defined, (f 1 2 (define ' x 1)) is refused for its count and x
\* is bound in the session all the same
C24_Witness ==
    /\ Len(hist) = 2
    /\ hist[1].input = DefAdd
    /\ hist[2].input = CallFDefineExtra
    /\ IsLambdaCall(View(2))
    /\ hist[2].r.t = "err"
    /\ hist[2].r.err.c = "Too many arguments to lambda"
    /\ "x" \notin DOMAIN hist[2].pre
    /\ env["x"] = Num(1)

\* after f is defined, (f 1 2 y) fails on the unbound y, its third argument
C24_ArgumentErrorFirst ==
    /\ Len(hist) = 2
    /\ hist[1].input = DefAdd
    /\ hist[2].input = CallFUnboundExtra
    /\ IsLambdaCall(View(2))
    /\ hist[2].r.t = "err"
    /\ hist[2].r.err.c # "Too many arguments to lambda"

\* after t is defined, (t 1 y (define ' w 7)) is refused for its count: the
\* unbound y was not looked up and w was not bound
C24_MacroEvaluatesNothing ==
    /\ Len(hist) = 2
    /\ hist[1].input = DefT
    /\ hist[2].input = CallTDefineExtra
    /\ IsMacroCall(View(2))
    /\ hist[2].r.err.c = "Too many arguments to lambda"
    /\ "w" \notin DOMAIN env

====
